---- MODULE Spec2Model ----
(***************************************************************************)
(* Model of md-tag.  md_tagger.py (MarkdownTagger): the tag aggregator     *)
(* merge_and_deduplicate_tags, the frontmatter merger                      *)
(* update_frontmatter_with_tags, the chunk splitter split_into_chunks,     *)
(* parse_markdown_file, generate_tags_for_chunk, process_markdown_file     *)
(* and process_directory.  mdfm_ollama.py: MarkdownFixer.fix_markdown and  *)
(* MarkdownProcessor.process_file.  markdown_fixer.py: main.               *)
(*                                                                         *)
(* There is one specification per function; its Init draws the inputs and  *)
(* leaves the variables of the other functions at their start values.      *)
(*                                                                         *)
(* Strings that the code inspects character by character are sequences of  *)
(* one-character strings.  Tags handed to the aggregator and the merger    *)
(* are atomic strings taken from small alphabets that contain upper-case   *)
(* and lower-case spellings of the same key, so that str.lower() is a      *)
(* real conversion.                                                        *)
(***************************************************************************)
EXTENDS Integers, Sequences, FiniteSets, TLC

VARIABLES
    \* merge_and_deduplicate_tags
    all_tags,       \* argument: sequence of per-chunk tag sequences
    final_tags,     \* value returned for all_tags
    remerged,       \* value returned for [final_tags]
    agg_pc,
    \* update_frontmatter_with_tags
    fm_in,          \* the mapping as it was when first passed in
    tags,           \* argument: the new tags
    frontmatter,    \* the mapping object (updated in place and returned)
    fm_once,        \* the mapping as returned by the first call
    fm_pc,
    \* split_into_chunks
    text,           \* argument: the body text
    chunk_size,     \* argument: the token budget
    lines,          \* text.split('\n')
    line_no,        \* index in lines of the next line of the for loop
    current_chunk,
    chunks,
    split_pc,
    \* parse_markdown_file
    content,
    read_ok,
    has_block,
    frontmatter_str,
    parsed_frontmatter,
    markdown_content,
    parse_pc,
    \* generate_tags_for_chunk
    response,
    response_text,
    hashtag_section,
    gen_tags,
    gen_pc,
    \* process_markdown_file
    disk,
    proc_chunk_size,
    proc_loaded,
    proc_frontmatter,
    proc_content,
    proc_chunks,
    chunk_no,
    proc_all_tags,
    gen_calls,
    gen_returns,
    gen_active,
    reads,
    writes,
    write_outcome,
    proc_result,
    proc_pc,
    \* process_directory
    glob_found,
    markdown_files,
    file_no,
    dir_calls,
    results,
    success_count,
    reported,
    dir_pc,
    \* MarkdownProcessor.process_file (mdfm_ollama.py)
    fix_disk,
    output_path,
    original_content,
    llm,
    fixed_content,
    fix_result,
    fix_pc,
    \* markdown_fixer.main
    mf_file,
    markdownlint_output,
    mf_markdown_content,
    mf_fixed_content,
    mf_failed,
    mf_written,
    exit_status,
    main_pc

aggVars == <<all_tags, final_tags, remerged, agg_pc>>
fmVars == <<fm_in, tags, frontmatter, fm_once, fm_pc>>
splitVars == <<text, chunk_size, lines, line_no, current_chunk, chunks, split_pc>>
parseVars == <<content, read_ok, has_block, frontmatter_str, parsed_frontmatter, markdown_content, parse_pc>>
genVars == <<response, response_text, hashtag_section, gen_tags, gen_pc>>
procVars == <<disk, proc_chunk_size, proc_loaded, proc_frontmatter, proc_content, proc_chunks, chunk_no, proc_all_tags, gen_calls, gen_returns, gen_active, reads, writes, write_outcome, proc_result, proc_pc>>
dirVars == <<glob_found, markdown_files, file_no, dir_calls, results, success_count, reported, dir_pc>>
fixVars == <<fix_disk, output_path, original_content, llm, fixed_content, fix_result, fix_pc>>
mainVars == <<mf_file, markdownlint_output, mf_markdown_content, mf_fixed_content, mf_failed, mf_written, exit_status, main_pc>>
vars == <<aggVars, fmVars, splitVars, parseVars, genVars, procVars, dirVars, fixVars, mainVars>>

----------------------------------------------------------------------------
(* Bounds *)

MaxChunks == 2          \* per-chunk tag lists handed to the aggregator
MaxChunkTags == 2       \* tags in one per-chunk list
MaxExistingTags == 2    \* tags already listed in the frontmatter
MaxNewTags == 2         \* tags handed to the frontmatter merger
MaxTextLen == 5         \* characters of the body text
MaxBudget == 3          \* largest chunk_size tried
MaxLines == 3           \* lines of a body text built from whole lines
MaxLineBudget == 5      \* largest chunk_size tried on such a text
MaxDocPieces == 7       \* pieces ("---", line break, text) of a file's content
MaxResponsePieces == 4  \* pieces (labels, words, separators) of a model answer
MaxProcLines == 3       \* lines of the body of a processed file
MaxProcBudget == 2      \* largest chunk_size of a processing run
MaxFiles == 3           \* Markdown files found under a directory
MaxFixPieces == 4       \* pieces (fences, think tags, text) of a fixer answer
MaxCompletionPieces == 3 \* pieces (fences, words, line breaks) of a completion

----------------------------------------------------------------------------
(* Generic helpers *)

SeqsUpTo(S, n) == UNION {[1..k -> S] : k \in 0..n}

Min(a, b) == IF a <= b THEN a ELSE b

\* str.lower() on the tag alphabets used below
Lower(tag) ==
    CASE tag = "A"  -> "a"
      [] tag = "AI" -> "ai"
      [] tag = "Ai" -> "ai"
      [] tag = "ML" -> "ml"
      [] OTHER      -> tag

----------------------------------------------------------------------------
(* merge_and_deduplicate_tags, src/md_tagger.py:207-243 *)

AggTags == {"", "a", "A", "b", "c"}

\* tag_counts is an insertion-ordered dict: a sequence of <<key, count>>
HasKey(d, k) == \E i \in 1..Len(d) : d[i][1] = k

Increment(d, k) ==
    IF HasKey(d, k)
    THEN [i \in 1..Len(d) |-> IF d[i][1] = k THEN <<k, d[i][2] + 1>> ELSE d[i]]
    ELSE Append(d, <<k, 1>>)

\* inner loop, lines 218-224: the tags of one chunk
RECURSIVE CountChunk(_, _)
CountChunk(d, chunk_tags) ==
    IF chunk_tags = <<>> THEN d
    ELSE LET tag == Head(chunk_tags) IN
         CountChunk(IF tag # "" THEN Increment(d, Lower(tag)) ELSE d,
                    Tail(chunk_tags))

\* outer loop, lines 215-224 (an empty or None chunk is skipped)
RECURSIVE tag_counts(_, _)
tag_counts(d, chunk_lists) ==
    IF chunk_lists = <<>> THEN d
    ELSE tag_counts(CountChunk(d, Head(chunk_lists)), Tail(chunk_lists))

\* variant of InsertDesc: ascending counts
InsertAsc(s, item) ==
    LET before == SelectSeq(s, LAMBDA x : x[2] <= item[2])
        after  == SelectSeq(s, LAMBDA x : x[2] > item[2])
    IN before \o <<item>> \o after

\* variant of InsertDesc: equal counts in reverse dict order
InsertDescReversedTies(s, item) ==
    LET before == SelectSeq(s, LAMBDA x : x[2] > item[2])
        after  == SelectSeq(s, LAMBDA x : x[2] <= item[2])
    IN before \o <<item>> \o after

\* sorted(items, key=count, reverse=True) keeps the dict order of equal
\* counts: insert each item behind every item whose count is >= its own
InsertDesc(s, item) ==
    LET before == SelectSeq(s, LAMBDA x : x[2] >= item[2])
        after  == SelectSeq(s, LAMBDA x : x[2] < item[2])
    IN before \o <<item>> \o after

RECURSIVE SortFrom(_, _)
SortFrom(s, items) ==
    IF items = <<>> THEN s
    ELSE SortFrom(InsertDesc(s, Head(items)), Tail(items))

sorted_tags(d) == SortFrom(<<>>, d)

\* variant of MatchIndex: the last matching tag of the chunk
MatchIndexLast(chunk_tags, tag_lower) ==
    LET hits == {i \in 1..Len(chunk_tags) :
                    chunk_tags[i] # "" /\ Lower(chunk_tags[i]) = tag_lower}
    IN IF hits = {} THEN 0 ELSE CHOOSE i \in hits : \A j \in hits : j <= i

\* lines 236-239: first tag of the chunk whose lower-cased form is the key
MatchIndex(chunk_tags, tag_lower) ==
    LET hits == {i \in 1..Len(chunk_tags) :
                    chunk_tags[i] # "" /\ Lower(chunk_tags[i]) = tag_lower}
    IN IF hits = {} THEN 0 ELSE CHOOSE i \in hits : \A j \in hits : i <= j

\* line 240: len(final_tags) > len(sorted_tags[:len(final_tags)]) - 1
BreakAfterChunk(ft, st) == Len(ft) > Min(Len(ft), Len(st)) - 1

\* lines 234-241: the scan of the chunks for one key
RECURSIVE RestoreKey(_, _, _, _)
RestoreKey(ft, st, tag_lower, chunk_lists) ==
    IF chunk_lists = <<>> THEN ft
    ELSE LET chunk_tags == Head(chunk_lists) IN
         IF chunk_tags = <<>> THEN RestoreKey(ft, st, tag_lower, Tail(chunk_lists))
         ELSE LET i   == MatchIndex(chunk_tags, tag_lower)
                  ft2 == IF i # 0 THEN Append(ft, chunk_tags[i]) ELSE ft
              IN IF BreakAfterChunk(ft2, st) THEN ft2
                 ELSE RestoreKey(ft2, st, tag_lower, Tail(chunk_lists))

\* lines 231-241: one scan per sorted key
RECURSIVE RestoreFrom(_, _, _, _)
RestoreFrom(ft, st, k, chunk_lists) ==
    IF k > Len(st) THEN ft
    ELSE RestoreFrom(RestoreKey(ft, st, st[k][1], chunk_lists), st, k + 1, chunk_lists)

merge_and_deduplicate_tags(chunk_lists) ==
    IF chunk_lists = <<>> THEN <<>>
    ELSE LET st == sorted_tags(tag_counts(<<>>, chunk_lists))
         IN RestoreFrom(<<>>, st, 1, chunk_lists)

AggStart(input) ==
    /\ all_tags = input
    /\ final_tags = <<>>
    /\ remerged = <<>>
    /\ agg_pc = "input"

\* final_tags = merge_and_deduplicate_tags(all_tags)
Merge ==
    /\ agg_pc = "input"
    /\ final_tags' = merge_and_deduplicate_tags(all_tags)
    /\ agg_pc' = "merged"
    /\ UNCHANGED <<all_tags, remerged, fmVars, splitVars, parseVars, genVars, procVars, dirVars, fixVars, mainVars>>

\* the aggregator applied to its own output as a single chunk
MergeAgain ==
    /\ agg_pc = "merged"
    /\ remerged' = merge_and_deduplicate_tags(<<final_tags>>)
    /\ agg_pc' = "remerged"
    /\ UNCHANGED <<all_tags, final_tags, fmVars, splitVars, parseVars, genVars, procVars, dirVars, fixVars, mainVars>>

----------------------------------------------------------------------------
(* update_frontmatter_with_tags, src/md_tagger.py:245-271 *)

\* YAML values as Python objects; val is always a sequence: empty for None,
\* one string for a str, the elements for a list
PyNone == [type |-> "none", val |-> <<>>]
PyStr(s) == [type |-> "str", val |-> <<s>>]
PyList(l) == [type |-> "list", val |-> l]

FmTags == {"AI", "ai", "ML"}
FmKeys == {"title", "tags", "date"}

\* a dict is an insertion-ordered sequence of <<key, value>> with distinct keys
KeyIndex(d, key) ==
    IF \E i \in 1..Len(d) : d[i][1] = key
    THEN CHOOSE i \in 1..Len(d) : d[i][1] = key
    ELSE 0

\* dict.get(key, default)
Get(d, key, default) ==
    IF KeyIndex(d, key) = 0 THEN default ELSE d[KeyIndex(d, key)][2]

\* variant of SetItem: the key is removed and inserted again at the end
SetItemMoveToEnd(d, key, value) ==
    Append(SelectSeq(d, LAMBDA e : e[1] # key), <<key, value>>)

\* d[key] = value: an existing key keeps its position, a new key goes last
SetItem(d, key, value) ==
    IF KeyIndex(d, key) = 0 THEN Append(d, <<key, value>>)
    ELSE [i \in 1..Len(d) |-> IF d[i][1] = key THEN <<key, value>> ELSE d[i]]

\* variant of SeenKey: case-sensitive comparison
SeenKeyExact(tag) == tag

\* line 264: tag_lower = tag.lower()
SeenKey(tag) == Lower(tag)

\* lines 259-267: keep a tag unless its lower-cased form was seen
RECURSIVE UniqueFrom(_, _, _)
UniqueFrom(unique, seen, rest) ==
    IF rest = <<>> THEN unique
    ELSE LET tag == Head(rest) IN
         IF SeenKey(tag) \notin seen
         THEN UniqueFrom(Append(unique, tag), seen \cup {SeenKey(tag)}, Tail(rest))
         ELSE UniqueFrom(unique, seen, Tail(rest))

\* variant of unique_tags: nothing is removed
unique_tags_all(all) == all

unique_tags(all) == UniqueFrom(<<>>, {}, all)

\* lines 253-255: the tags value; a str becomes a one-element list
existing_tags(d) ==
    LET e == Get(d, "tags", PyList(<<>>))
    IN IF e.type = "str" THEN PyList(e.val) ELSE e

\* line 258: list(None) raises TypeError
UpdateRaises(d) == existing_tags(d).type = "none"

\* the mapping returned when no exception is raised
update_frontmatter_with_tags(d, new_tags) ==
    LET fm == IF d = <<>> THEN <<>> ELSE d
        all == existing_tags(fm).val \o new_tags
    IN SetItem(fm, "tags", PyList(unique_tags(all)))

TagValues ==
    {PyNone} \cup {PyStr(s) : s \in FmTags}
             \cup {PyList(l) : l \in SeqsUpTo(FmTags, MaxExistingTags)}

KeyOrders ==
    {o \in SeqsUpTo(FmKeys, Cardinality(FmKeys)) :
        \A i, j \in 1..Len(o) : i # j => o[i] # o[j]}

\* the values of the keys other than tags
OtherValue(key) == IF key = "title" THEN PyStr("T") ELSE PyStr("D")

Frontmatters ==
    {[i \in 1..Len(o) |-> <<o[i], IF o[i] = "tags" THEN tv ELSE OtherValue(o[i])>>] :
        o \in KeyOrders, tv \in TagValues}

FmStart(fm, new_tags) ==
    /\ fm_in = fm
    /\ tags = new_tags
    /\ frontmatter = fm
    /\ fm_once = <<>>
    /\ fm_pc = "input"

\* updated = update_frontmatter_with_tags(frontmatter, tags)
Update ==
    /\ fm_pc = "input"
    /\ IF UpdateRaises(frontmatter)
       THEN /\ fm_pc' = "raised"
            /\ UNCHANGED <<frontmatter, fm_once>>
       ELSE /\ frontmatter' = update_frontmatter_with_tags(frontmatter, tags)
            /\ fm_once' = frontmatter'
            /\ fm_pc' = "updated"
    /\ UNCHANGED <<fm_in, tags, aggVars, splitVars, parseVars, genVars, procVars, dirVars, fixVars, mainVars>>

\* the merger applied to its own result with the same tags
UpdateAgain ==
    /\ fm_pc = "updated"
    /\ ~UpdateRaises(frontmatter)
    /\ frontmatter' = update_frontmatter_with_tags(frontmatter, tags)
    /\ fm_pc' = "updated_twice"
    /\ UNCHANGED <<fm_in, tags, fm_once, aggVars, splitVars, parseVars, genVars, procVars, dirVars, fixVars, mainVars>>

----------------------------------------------------------------------------
(* split_into_chunks, src/md_tagger.py:38-88 *)

\* A text is a sequence of one-character strings over this alphabet
Letters == {"a"}
Whitespace == {" ", "\n"}
Punctuation == {".", "#"}
Chars == Letters \cup Whitespace \cup Punctuation

NewLine == <<"\n">>
PeriodSpace == <<".", " ">>

\* str.strip(): leading and trailing whitespace removed
RECURSIVE lstrip(_)
lstrip(s) ==
    IF s # <<>> /\ Head(s) \in Whitespace THEN lstrip(Tail(s)) ELSE s

RECURSIVE rstrip(_)
rstrip(s) ==
    IF s # <<>> /\ s[Len(s)] \in Whitespace
    THEN rstrip(SubSeq(s, 1, Len(s) - 1))
    ELSE s

strip(s) == rstrip(lstrip(s))

\* sep occurs in s at position i
OccursAt(s, sep, i) ==
    /\ i + Len(sep) - 1 <= Len(s)
    /\ \A k \in 1..Len(sep) : s[i + k - 1] = sep[k]

\* str.split(sep): cut at the occurrences of sep, found left to right
RECURSIVE split(_, _)
split(s, sep) ==
    LET hits == {i \in 1..Len(s) : OccursAt(s, sep, i)}
    IN IF hits = {} THEN <<s>>
       ELSE LET i == CHOOSE h \in hits : \A g \in hits : h <= g
            IN <<SubSeq(s, 1, i - 1)>> \o split(SubSeq(s, i + Len(sep), Len(s)), sep)

\* the index of the last character of the run of characters of S that
\* starts at i (i - 1 when s[i] is not in S)
RECURSIVE RunEnd(_, _, _)
RunEnd(s, i, S) ==
    IF i <= Len(s) /\ s[i] \in S THEN RunEnd(s, i + 1, S) ELSE i - 1

LastOf(S) == CHOOSE x \in S : \A y \in S : y <= x

\* The cl100k_base encoding (line 32) first cuts the text into pieces with
\* its splitting pattern, tried in this order at each position:
\*   [^\r\n\p{L}\p{N}]?\p{L}+     letters, with one character before them
\*    ?[^\s\p{L}\p{N}]+[\r\n]*    punctuation, with a space before it and
\*                                line breaks after it
\*   \s*[\r\n]+                   whitespace up to its last line break
\*   \s+(?!\S)  and  \s+          whitespace, leaving one blank to the word
\*                                that follows
\* PieceEnd is the index of the last character of the piece starting at i.
PieceEnd(s, i) ==
    IF s[i] \in Letters THEN RunEnd(s, i, Letters)
    ELSE IF s[i] # "\n" /\ i < Len(s) /\ s[i + 1] \in Letters
         THEN RunEnd(s, i + 1, Letters)
    ELSE IF s[i] \in Punctuation
         THEN RunEnd(s, RunEnd(s, i, Punctuation) + 1, {"\n"})
    ELSE IF s[i] = " " /\ i < Len(s) /\ s[i + 1] \in Punctuation
         THEN RunEnd(s, RunEnd(s, i + 1, Punctuation) + 1, {"\n"})
    ELSE LET w   == RunEnd(s, i, Whitespace)
             nls == {j \in i..w : s[j] = "\n"}
         IN IF nls # {} THEN LastOf(nls)
            ELSE IF w = Len(s) THEN w
            ELSE IF w > i THEN w - 1
            ELSE w

RECURSIVE PiecesFrom(_, _)
PiecesFrom(s, i) ==
    IF i > Len(s) THEN 0 ELSE 1 + PiecesFrom(s, PieceEnd(s, i) + 1)

\* len(self.encoding.encode(text)): every piece (a short word, a
\* punctuation mark, a line break) is one token of the vocabulary
count_tokens(s) == PiecesFrom(s, 1)

\* line 47: '#' repeated 1 to MaxHeaderLevel times
MaxHeaderLevel == 6

\* re.match(r'^(#{1,6})\s+(.+)$', line)
header_match(line) ==
    \E h \in 1..MaxHeaderLevel :
        /\ h + 2 <= Len(line)
        /\ \A i \in 1..h : line[i] = "#"
        /\ line[h + 1] \in Whitespace

\* lines 80-81 and 58-59, 85-86: flush a chunk that is not blank
Flush(cs, cur) == IF strip(cur) # <<>> THEN Append(cs, strip(cur)) ELSE cs

\* lines 75-82: repack the sentences; returns <<chunks, current_chunk>>
RECURSIVE SentenceLoop(_, _, _, _)
SentenceLoop(cs, cur, sentences, budget) ==
    IF sentences = <<>> THEN <<cs, cur>>
    ELSE LET sentence      == Head(sentences)
             test_sentence == cur \o sentence \o PeriodSpace
         IN IF count_tokens(test_sentence) <= budget
            THEN SentenceLoop(cs, test_sentence, Tail(sentences), budget)
            ELSE SentenceLoop(Flush(cs, cur), sentence \o PeriodSpace,
                              Tail(sentences), budget)

\* lines 51-82: the loop body for one line; returns <<chunks, current_chunk>>
LineStep(cs, cur, line, budget) ==
    LET test_chunk == cur \o line \o NewLine
    IN IF count_tokens(test_chunk) <= budget
       THEN <<cs, test_chunk>>
       ELSE LET cs2  == Flush(cs, cur)
                cur2 == IF header_match(line)
                        THEN line \o NewLine
                        ELSE line \o NewLine
            IN IF count_tokens(cur2) > budget
               THEN SentenceLoop(cs2, <<>>, split(line, PeriodSpace), budget)
               ELSE <<cs2, cur2>>

SplitStart(body, budget) ==
    /\ text = body
    /\ chunk_size = budget
    /\ lines = <<>>
    /\ line_no = 0
    /\ current_chunk = <<>>
    /\ chunks = <<>>
    /\ split_pc = "input"

\* lines 43-48: chunks = [], current_chunk = "", lines = text.split('\n')
\* (text is a str here; the None guard of lines 40-41 returns [] at once)
SplitBegin ==
    /\ split_pc = "input"
    /\ lines' = split(text, NewLine)
    /\ line_no' = 1
    /\ chunks' = <<>>
    /\ current_chunk' = <<>>
    /\ split_pc' = "loop"
    /\ UNCHANGED <<text, chunk_size, aggVars, fmVars, parseVars, genVars, procVars, dirVars, fixVars, mainVars>>

\* lines 50-82: one iteration of the for loop
SplitLine ==
    /\ split_pc = "loop"
    /\ line_no <= Len(lines)
    /\ LET r == LineStep(chunks, current_chunk, lines[line_no], chunk_size)
       IN /\ chunks' = r[1]
          /\ current_chunk' = r[2]
    /\ line_no' = line_no + 1
    /\ UNCHANGED <<text, chunk_size, lines, split_pc, aggVars, fmVars, parseVars, genVars, procVars, dirVars, fixVars, mainVars>>

\* lines 84-88: flush the last chunk and return
SplitEnd ==
    /\ split_pc = "loop"
    /\ line_no > Len(lines)
    /\ chunks' = Flush(chunks, current_chunk)
    /\ split_pc' = "done"
    /\ UNCHANGED <<text, chunk_size, lines, line_no, current_chunk, aggVars, fmVars, parseVars, genVars, procVars, dirVars, fixVars, mainVars>>

----------------------------------------------------------------------------
(* Start of the functions modelled further below *)

\* parse_markdown_file(file_path) is about to read a file holding c
ParseStart(c) ==
    /\ content = c
    /\ read_ok = TRUE
    /\ has_block = FALSE
    /\ frontmatter_str = <<>>
    /\ parsed_frontmatter = PyNone
    /\ markdown_content = <<>>
    /\ parse_pc = "input"

\* generate_tags_for_chunk is about to receive the model's answer r
GenStart(r) ==
    /\ response = r
    /\ response_text = <<>>
    /\ hashtag_section = <<>>
    /\ gen_tags = <<>>
    /\ gen_pc = "called"

\* process_markdown_file(file_path) is called on a file holding c, with
\* self.chunk_size = budget
ProcStart(c, budget) ==
    /\ disk = [written |-> FALSE, text |-> c, frontmatter |-> PyNone]
    /\ proc_chunk_size = budget
    /\ proc_loaded = [has_block |-> FALSE, ok |-> TRUE, value |-> PyNone]
    /\ proc_frontmatter = PyNone
    /\ proc_content = <<>>
    /\ proc_chunks = <<>>
    /\ chunk_no = 0
    /\ proc_all_tags = <<>>
    /\ gen_calls = <<>>
    /\ gen_returns = <<>>
    /\ gen_active = FALSE
    /\ reads = 0
    /\ writes = 0
    /\ write_outcome = "none"
    /\ proc_result = "none"
    /\ proc_pc = "start"

\* process_directory(directory_path) is called; path.glob will list found
DirStart(found) ==
    /\ glob_found = found
    /\ markdown_files = <<>>
    /\ file_no = 0
    /\ dir_calls = <<>>
    /\ results = <<>>
    /\ success_count = 0
    /\ reported = [total |-> 0, success |-> 0, failure |-> 0]
    /\ dir_pc = "start"

\* MarkdownProcessor.process_file(input_path, output_path) is called; the
\* input file holds file_text, out is "none" for output_path=None
FixStart(file_text, out) ==
    /\ fix_disk = [input |-> file_text, output |-> <<>>]
    /\ output_path = out
    /\ original_content = <<>>
    /\ llm = [kind |-> "none", status |-> 0, response |-> <<>>]
    /\ fixed_content = <<>>
    /\ fix_result = "none"
    /\ fix_pc = "start"

\* markdown_fixer.main() is called on an existing file holding file_text,
\* with an API key
MainStart(file_text) ==
    /\ mf_file = file_text
    /\ markdownlint_output = <<>>
    /\ mf_markdown_content = <<>>
    /\ mf_fixed_content = <<>>
    /\ mf_failed = {}
    /\ mf_written = <<>>
    /\ exit_status = "none"
    /\ main_pc = "lint"

----------------------------------------------------------------------------
(* Specifications: one per function, inputs drawn from bounded sets *)

AggInit ==
    /\ \E input \in SeqsUpTo(SeqsUpTo(AggTags, MaxChunkTags), MaxChunks) :
          AggStart(input)
    /\ FmStart(<<>>, <<>>)
    /\ SplitStart(<<>>, 0)
    /\ ParseStart(<<>>)
    /\ GenStart(<<>>)
    /\ ProcStart(<<>>, 0)
    /\ DirStart(<<>>)
    /\ FixStart(<<>>, "none")
    /\ MainStart(<<>>)

AggNext == Merge \/ MergeAgain

AggSpec == AggInit /\ [][AggNext]_vars

FmInit ==
    /\ AggStart(<<>>)
    /\ \E fm \in Frontmatters, new_tags \in SeqsUpTo(FmTags, MaxNewTags) :
          FmStart(fm, new_tags)
    /\ SplitStart(<<>>, 0)
    /\ ParseStart(<<>>)
    /\ GenStart(<<>>)
    /\ ProcStart(<<>>, 0)
    /\ DirStart(<<>>)
    /\ FixStart(<<>>, "none")
    /\ MainStart(<<>>)

FmNext == Update \/ UpdateAgain

FmSpec == FmInit /\ [][FmNext]_vars

SplitInit ==
    /\ AggStart(<<>>)
    /\ FmStart(<<>>, <<>>)
    /\ \E body \in SeqsUpTo(Chars, MaxTextLen), budget \in 0..MaxBudget :
          SplitStart(body, budget)
    /\ ParseStart(<<>>)
    /\ GenStart(<<>>)
    /\ ProcStart(<<>>, 0)
    /\ DirStart(<<>>)
    /\ FixStart(<<>>, "none")
    /\ MainStart(<<>>)

SplitNext == SplitBegin \/ SplitLine \/ SplitEnd

SplitSpec == SplitInit /\ [][SplitNext]_vars

----------------------------------------------------------------------------
(* Properties of merge_and_deduplicate_tags *)

RECURSIVE Flatten(_)
Flatten(chunk_lists) ==
    IF chunk_lists = <<>> THEN <<>> ELSE Head(chunk_lists) \o Flatten(Tail(chunk_lists))

\* all input tags, chunks in order, tags of a chunk in list order
FlatTags == Flatten(all_tags)

\* positions of the non-empty input tags whose lower-cased form is k
Occurrences(k) == {i \in 1..Len(FlatTags) : FlatTags[i] # "" /\ Lower(FlatTags[i]) = k}

InputKeys == {Lower(FlatTags[i]) : i \in {j \in 1..Len(FlatTags) : FlatTags[j] # ""}}

FirstSeen(k) == CHOOSE i \in Occurrences(k) : \A j \in Occurrences(k) : i <= j

AggReturned == agg_pc \in {"merged", "remerged"}

\* C1: the result holds exactly one entry for every distinct lower-cased
\* non-empty tag of any chunk: none missing, none duplicated, no truncation.
C1_EveryKeyOnce ==
    AggReturned =>
        /\ Len(final_tags) = Cardinality(InputKeys)
        /\ \A k \in InputKeys :
              Cardinality({i \in 1..Len(final_tags) : Lower(final_tags[i]) = k}) = 1

\* C2: of two emitted tags the one with the higher occurrence count comes
\* first; with equal counts the one whose key was first seen earlier does.
C2_RankedByCountThenFirstSeen ==
    AggReturned =>
        \A i, j \in 1..Len(final_tags) :
            i < j =>
                LET ki == Lower(final_tags[i])
                    kj == Lower(final_tags[j])
                    ci == Cardinality(Occurrences(ki))
                    cj == Cardinality(Occurrences(kj))
                IN \/ ci > cj
                   \/ ci = cj /\ FirstSeen(ki) < FirstSeen(kj)

\* a key counted twice is emitted before a key that was seen before it
C2_Witness ==
    /\ agg_pc = "merged"
    /\ \E i, j \in 1..Len(final_tags) :
          /\ i < j
          /\ FirstSeen(Lower(final_tags[i])) > FirstSeen(Lower(final_tags[j]))
          /\ Cardinality(Occurrences(Lower(final_tags[i]))) = 2

\* C3: every emitted tag is the spelling of the earliest input occurrence
\* of its lower-cased key.
C3_FirstSpelling ==
    AggReturned =>
        \A i \in 1..Len(final_tags) :
            final_tags[i] = FlatTags[FirstSeen(Lower(final_tags[i]))]

\* a key spelled "A" first and "a" later is emitted as "A"
C3_Witness ==
    /\ agg_pc = "merged"
    /\ \E i \in 1..Len(final_tags) :
          /\ final_tags[i] = "A"
          /\ \E p \in Occurrences("a") : FlatTags[p] = "a"

\* C4: aggregating the aggregator's output as a single chunk returns that
\* output again, element for element.
C4_Idempotent == agg_pc = "remerged" => remerged = final_tags

\* the first result has two entries whose input counts differed
C4_Witness ==
    /\ agg_pc = "remerged"
    /\ Len(final_tags) >= 2
    /\ Cardinality(Occurrences(Lower(final_tags[1]))) >
           Cardinality(Occurrences(Lower(final_tags[2])))

----------------------------------------------------------------------------
(* Properties of update_frontmatter_with_tags *)

FmReturned == fm_pc \in {"updated", "updated_twice"}

KeysOf(d) == [i \in 1..Len(d) |-> d[i][1]]

HasTagsKey(d) == \E i \in 1..Len(d) : d[i][1] = "tags"

\* the tags the mapping held when it was passed in, as a sequence
ExistingSeq(d) ==
    IF HasTagsKey(d)
    THEN (CHOOSE e \in {d[i] : i \in 1..Len(d)} : e[1] = "tags")[2].val
    ELSE <<>>

\* s without every element whose lower-cased form occurs earlier in s
RECURSIVE KeepFirstFrom(_, _)
KeepFirstFrom(s, i) ==
    IF i > Len(s) THEN <<>>
    ELSE IF \E j \in 1..(i - 1) : Lower(s[j]) = Lower(s[i])
         THEN KeepFirstFrom(s, i + 1)
         ELSE <<s[i]>> \o KeepFirstFrom(s, i + 1)

\* C5: the tags field becomes existing tags followed by new tags, without
\* the elements whose lower-cased form occurred earlier in that
\* concatenation; kept elements keep spelling and relative position.
C5_CaseInsensitiveMerge ==
    fm_pc = "updated" =>
        /\ HasTagsKey(frontmatter)
        /\ \A i \in 1..Len(frontmatter) :
              frontmatter[i][1] = "tags" =>
                  frontmatter[i][2] = PyList(KeepFirstFrom(ExistingSeq(fm_in) \o tags, 1))

\* existing ["AI"] merged with ["ai", "ML"] has given ["AI", "ML"]
C5_Witness ==
    /\ fm_pc = "updated"
    /\ HasTagsKey(fm_in)
    /\ ExistingSeq(fm_in) = <<"AI">>
    /\ tags = <<"ai", "ML">>
    /\ ExistingSeq(frontmatter) = <<"AI", "ML">>

\* C6: applying the merger with the same tags to its own result gives a
\* mapping equal to the result of applying it once.
C6_MergerIdempotent == fm_pc = "updated_twice" => frontmatter = fm_once

\* a second application whose new tags were all added by the first one
C6_Witness ==
    /\ fm_pc = "updated_twice"
    /\ Len(tags) = 2
    /\ Len(ExistingSeq(fm_once)) > Len(ExistingSeq(fm_in))

\* C7: only the tags field changes: the other keys keep their values and
\* their order, an existing tags key keeps its position and a new tags key
\* comes after the existing keys.
C7_OtherFieldsUntouched ==
    FmReturned =>
        /\ KeysOf(frontmatter) = IF HasTagsKey(fm_in) THEN KeysOf(fm_in)
                                 ELSE Append(KeysOf(fm_in), "tags")
        /\ \A i \in 1..Len(fm_in) :
              fm_in[i][1] # "tags" => frontmatter[i] = fm_in[i]

\* a tags key between two other keys has received a new value
C7_Witness ==
    /\ fm_pc = "updated"
    /\ Len(fm_in) = 3
    /\ fm_in[2][1] = "tags"
    /\ frontmatter[2] # fm_in[2]
    /\ frontmatter[1] = fm_in[1]
    /\ frontmatter[3] = fm_in[3]

----------------------------------------------------------------------------
(* Properties of split_into_chunks *)

IsPrefix(p, s) == Len(p) <= Len(s) /\ SubSeq(s, 1, Len(p)) = p

\* rest is cs[k], cs[k+1], ... in this order with nothing but whitespace
\* before, between and after them
RECURSIVE Reassembles(_, _, _)
Reassembles(rest, cs, k) ==
    IF k > Len(cs) THEN lstrip(rest) = <<>>
    ELSE /\ IsPrefix(cs[k], lstrip(rest))
         /\ Reassembles(SubSeq(lstrip(rest), Len(cs[k]) + 1, Len(lstrip(rest))),
                        cs, k + 1)

\* the sentences of every line of the text
Sentences ==
    UNION {{split(lines[i], PeriodSpace)[j] :
                j \in 1..Len(split(lines[i], PeriodSpace))} : i \in 1..Len(lines)}

\* C8: the chunks, joined in order with the whitespace trimmed at the chunk
\* boundaries put back, are the body text: no character is added, dropped
\* or replaced inside a chunk, also when a line is split into sentences.
C8_ChunksReassembleText ==
    split_pc = "done" => Reassembles(text, chunks, 1)

\* C9: for a budget >= 1 every chunk has at most budget tokens, unless the
\* chunk is a single original line or a single sentence (with or without
\* its closing period) whose own token count exceeds the budget.
C9_ChunkWithinBudget ==
    (split_pc = "done" /\ chunk_size >= 1) =>
        \A k \in 1..Len(chunks) :
            \/ count_tokens(chunks[k]) <= chunk_size
            \/ \E i \in 1..Len(lines) :
                  /\ count_tokens(lines[i]) > chunk_size
                  /\ chunks[k] = strip(lines[i])
            \/ \E sentence \in Sentences :
                  /\ count_tokens(sentence) > chunk_size
                  /\ chunks[k] \in {strip(sentence), strip(sentence \o PeriodSpace)}

\* C10: the empty text gives the empty sequence of chunks for any budget.
C10_EmptyTextNoChunks ==
    (split_pc = "done" /\ text = <<>>) => chunks = <<>>

----------------------------------------------------------------------------
(* split_into_chunks on body texts made of whole lines: plain lines, a     *)
(* heading, a blank line and a line of two sentences                       *)

\* '\n'.join(ls)
RECURSIVE JoinLines(_)
JoinLines(ls) ==
    IF Len(ls) = 0 THEN <<>>
    ELSE IF Len(ls) = 1 THEN ls[1]
    ELSE ls[1] \o NewLine \o JoinLines(Tail(ls))

SplitLinesInit ==
    /\ AggStart(<<>>)
    /\ FmStart(<<>>, <<>>)
    /\ \E ls \in SeqsUpTo({<<"a">>, <<"#", " ", "a">>, <<>>, <<"a", ".", " ", "a">>},
                          MaxLines),
          budget \in 0..MaxLineBudget :
          SplitStart(JoinLines(ls), budget)
    /\ ParseStart(<<>>)
    /\ GenStart(<<>>)
    /\ ProcStart(<<>>, 0)
    /\ DirStart(<<>>)
    /\ FixStart(<<>>, "none")
    /\ MainStart(<<>>)

SplitLinesSpec == SplitLinesInit /\ [][SplitNext]_vars

\* C11: a flush caused by overflow happens right before a heading line: in
\* a chunk flushed because the next line did not fit, a heading is the
\* first line, never a later (in particular never the last) line.
C11_HeadingStartsChunk ==
    split_pc = "done" =>
        \A k \in 1..(Len(chunks) - 1) :
            LET ls == split(chunks[k], NewLine)
            IN \A j \in 2..Len(ls) : ~header_match(ls[j])

----------------------------------------------------------------------------
(* parse_markdown_file, src/md_tagger.py:91-126 *)

Dashes == <<"-", "-", "-">>

\* str.startswith(prefix)
startswith(s, prefix) == OccursAt(s, prefix, 1)

\* str.split(sep, maxsplit): at most maxsplit cuts, found left to right
RECURSIVE splitmax(_, _, _)
splitmax(s, sep, maxsplit) ==
    LET hits == {i \in 1..Len(s) : OccursAt(s, sep, i)}
    IN IF maxsplit = 0 \/ hits = {} THEN <<s>>
       ELSE LET i == CHOOSE h \in hits : \A g \in hits : h <= g
            IN <<SubSeq(s, 1, i - 1)>>
                   \o splitmax(SubSeq(s, i + Len(sep), Len(s)), sep, maxsplit - 1)

\* line 104: content.split('---', 2)
MaxSplit == 2

PyDict(d) == [type |-> "dict", val |-> d]

YamlLoads(block) ==
    IF strip(block) = <<>> THEN {[ok |-> TRUE, value |-> PyNone]}
    ELSE {[ok |-> FALSE, value |-> PyNone]}
         \cup {[ok |-> TRUE, value |-> PyDict(d)] :
                  d \in {<<<<"title", PyStr("T")>>>>,
                         <<<<"title", PyStr("T")>>, <<"tags", PyList(<<"AI">>)>>>>,
                         <<<<"tags", PyNone>>>>}}
         \cup {[ok |-> TRUE, value |-> PyStr("k")],
               [ok |-> TRUE, value |-> PyList(<<"k">>)]}

\* lines 109-114: None and a YAMLError become the empty mapping
LoadedFrontmatter(y) ==
    IF ~y.ok THEN PyDict(<<>>)
    ELSE IF y.value = PyNone THEN PyDict(<<>>)
    ELSE y.value

\* lines 103-105: the text starts with '---' and splits into three parts
HasFrontmatterParts(c) ==
    startswith(c, Dashes) /\ Len(splitmax(c, Dashes, MaxSplit)) >= 3

\* lines 102-122: the possible results for a file holding c, one for each
\* thing yaml.safe_load can return
ParseResults(c) ==
    IF HasFrontmatterParts(c)
    THEN LET parts == splitmax(c, Dashes, MaxSplit)
         IN {[frontmatter |-> LoadedFrontmatter(y), body |-> strip(parts[3]),
              block |-> parts[2], loaded |-> y] : y \in YamlLoads(parts[2])}
    ELSE {[frontmatter |-> PyDict(<<>>), body |-> c,
           block |-> <<>>, loaded |-> [ok |-> TRUE, value |-> PyNone]]}

\* lines 98-122: the file is read and split into frontmatter and body
ParseFile ==
    /\ parse_pc = "input"
    /\ \E r \in ParseResults(content) :
          /\ has_block' = HasFrontmatterParts(content)
          /\ frontmatter_str' = r.block
          /\ markdown_content' = r.body
          /\ parsed_frontmatter' = r.frontmatter
    /\ parse_pc' = "parsed"
    /\ UNCHANGED <<content, read_ok, aggVars, fmVars, splitVars, genVars, procVars, dirVars, fixVars, mainVars>>

\* lines 124-126: open() or read() raises: (None, "") is returned
ParseFileUnreadable ==
    /\ parse_pc = "input"
    /\ read_ok' = FALSE
    /\ has_block' = FALSE
    /\ frontmatter_str' = <<>>
    /\ parsed_frontmatter' = PyNone
    /\ markdown_content' = <<>>
    /\ parse_pc' = "parsed"
    /\ UNCHANGED <<content, aggVars, fmVars, splitVars, genVars, procVars, dirVars, fixVars, mainVars>>

RECURSIVE Concat(_)
Concat(pieces) ==
    IF pieces = <<>> THEN <<>> ELSE Head(pieces) \o Concat(Tail(pieces))

ParseInit ==
    /\ AggStart(<<>>)
    /\ FmStart(<<>>, <<>>)
    /\ SplitStart(<<>>, 0)
    /\ \E ps \in SeqsUpTo({Dashes, NewLine, <<"k">>}, MaxDocPieces) :
          ParseStart(Concat(ps))
    /\ GenStart(<<>>)
    /\ ProcStart(<<>>, 0)
    /\ DirStart(<<>>)
    /\ FixStart(<<>>, "none")
    /\ MainStart(<<>>)

ParseNext == ParseFile \/ ParseFileUnreadable

ParseSpec == ParseInit /\ [][ParseNext]_vars

\* the lines of c from line i to line j, joined again
LinesBetween(c, i, j) ==
    JoinLines(SubSeq(split(c, NewLine), i, j))

\* C17: a frontmatter block is recognised only when the first line is
\* exactly "---" and a later line is exactly "---"; the block is the text
\* between these two lines and the body the text after the closing line;
\* otherwise the whole text is the body.
C17_DelimiterLinesOnly ==
    (parse_pc = "parsed" /\ read_ok) =>
        LET ls      == split(content, NewLine)
            closing == {j \in 2..Len(ls) : ls[j] = Dashes}
        IN IF ls[1] = Dashes /\ closing # {}
           THEN LET c == CHOOSE j \in closing : \A g \in closing : j <= g
                IN /\ has_block
                   /\ strip(frontmatter_str) = strip(LinesBetween(content, 2, c - 1))
                   /\ strip(markdown_content) = strip(LinesBetween(content, c + 1, Len(ls)))
           ELSE /\ ~has_block
                /\ markdown_content = content

----------------------------------------------------------------------------
(* generate_tags_for_chunk, src/md_tagger.py:128-205 *)

\* A model answer is a sequence of characters; the plain label (the Korean
\* word for hashtag followed by a colon, 5 characters) and the opening and
\* closing tags are kept as single elements.  "ga" and "na" stand for the
\* Hangul syllables U+AC00 and U+B098.
PlainLabel == <<"hashtag:">>
BoldLabel == <<"*", "*">> \o PlainLabel \o <<"*", "*">>

\* len(): the plain label is 5 characters long
RECURSIVE PyLen(_)
PyLen(s) ==
    IF s = <<>> THEN 0
    ELSE (IF <<Head(s)>> = PlainLabel THEN 5 ELSE 1) + PyLen(Tail(s))

\* any(U+AC00 <= char <= U+D7A3 for char in line)
HasHangul(s) ==
    \E i \in 1..Len(s) : s[i] \in {"ga", "na"} \/ <<s[i]>> = PlainLabel

\* str.strip(): every whitespace character is trimmed, the tab included
PyWhitespace == Whitespace \cup {"\t"}

RECURSIVE TrimLeft(_)
TrimLeft(s) ==
    IF s # <<>> /\ Head(s) \in PyWhitespace THEN TrimLeft(Tail(s)) ELSE s

RECURSIVE TrimRight(_)
TrimRight(s) ==
    IF s # <<>> /\ s[Len(s)] \in PyWhitespace
    THEN TrimRight(SubSeq(s, 1, Len(s) - 1)) ELSE s

Trim(s) == TrimRight(TrimLeft(s))

\* re.sub(open + '.*?' + close, '', s, flags=re.DOTALL): the leftmost opening
\* tag that has a closing tag after it, up to the nearest such closing tag
RECURSIVE RemoveBlocks(_, _)
RemoveBlocks(s, pair) ==
    LET opens == {i \in 1..Len(s) :
                     s[i] = pair[1] /\ \E j \in (i + 1)..Len(s) : s[j] = pair[2]}
    IN IF opens = {} THEN s
       ELSE LET i == CHOOSE o \in opens : \A g \in opens : o <= g
                closes == {j \in (i + 1)..Len(s) : s[j] = pair[2]}
                j == CHOOSE c \in closes : \A g \in closes : c <= g
            IN SubSeq(s, 1, i - 1) \o RemoveBlocks(SubSeq(s, j + 1, Len(s)), pair)

\* lines 164-168: the three kinds of block are removed, then, by
\* re.sub(r'<[^>]+>', '', s), the tags that are left
CleanResponse(s) ==
    LET XmlTags == {"<think>", "</think>", "<answer>", "</answer>",
                    "<reasoning>", "</reasoning>"}
        blocks == RemoveBlocks(RemoveBlocks(RemoveBlocks(s,
                      <<"<think>", "</think>">>), <<"<answer>", "</answer>">>),
                      <<"<reasoning>", "</reasoning>">>)
    IN SelectSeq(blocks, LAMBDA c : c \notin XmlTags)

\* sub in s
Contains(s, sub) == \E i \in 1..Len(s) : OccursAt(s, sub, i)

\* lines 171-178
HashtagSection(s) ==
    IF Contains(s, BoldLabel) THEN split(s, BoldLabel)[2]
    ELSE IF Contains(s, PlainLabel) THEN split(s, PlainLabel)[2]
    ELSE s

\* lines 182-191: strip, drop one leading '#' and strip, remove '_' and ' ',
\* keep what is longer than one character and holds a Hangul syllable
RECURSIVE TagsOfLines(_)
TagsOfLines(ls) ==
    IF ls = <<>> THEN <<>>
    ELSE LET l1 == Trim(Head(ls))
             l2 == IF l1 # <<>> /\ Head(l1) = "#" THEN Trim(Tail(l1)) ELSE l1
             l  == SelectSeq(l2, LAMBDA c : c # "_" /\ c # " ")
         IN (IF l # <<>> /\ PyLen(l) > 1 /\ HasHangul(l) THEN <<l>> ELSE <<>>)
                \o TagsOfLines(Tail(ls))

\* lines 181-191
ExtractTags(section) == TagsOfLines(split(Trim(section), NewLine))

\* lines 159-201: the model answered
GenerateTags ==
    /\ gen_pc = "called"
    /\ response_text' = CleanResponse(response)
    /\ hashtag_section' = HashtagSection(CleanResponse(response))
    /\ gen_tags' = ExtractTags(HashtagSection(CleanResponse(response)))
    /\ gen_pc' = "returned"
    /\ UNCHANGED <<response, aggVars, fmVars, splitVars, parseVars, procVars, dirVars, fixVars, mainVars>>

\* lines 203-205: ollama.generate raised
GenerateRaises ==
    /\ gen_pc = "called"
    /\ gen_tags' = <<>>
    /\ gen_pc' = "failed"
    /\ UNCHANGED <<response, response_text, hashtag_section, aggVars, fmVars, splitVars, parseVars, procVars, dirVars, fixVars, mainVars>>

GenInit ==
    /\ AggStart(<<>>)
    /\ FmStart(<<>>, <<>>)
    /\ SplitStart(<<>>, 0)
    /\ ParseStart(<<>>)
    /\ \E ps \in SeqsUpTo({PlainLabel, BoldLabel, <<"ga", "na">>, <<"ga">>, <<"a">>,
                          NewLine, <<" ">>, <<"\t">>, <<"_">>, <<"#">>,
                          <<"<think>">>, <<"</think>">>}, MaxResponsePieces) :
          GenStart(Concat(ps))
    /\ ProcStart(<<>>, 0)
    /\ DirStart(<<>>)
    /\ FixStart(<<>>, "none")
    /\ MainStart(<<>>)

GenNext == GenerateTags \/ GenerateRaises

GenSpec == GenInit /\ [][GenNext]_vars

\* C16: every returned tag is longer than one character, holds a Hangul
\* syllable, and holds no underscore and no whitespace character; the tags
\* come in the order of their lines.
C16_TagsWellFormed ==
    gen_pc = "returned" =>
        /\ \A i \in 1..Len(gen_tags) :
              /\ PyLen(gen_tags[i]) > 1
              /\ HasHangul(gen_tags[i])
              /\ \A k \in 1..Len(gen_tags[i]) :
                    gen_tags[i][k] \notin PyWhitespace \cup {"_"}
        /\ gen_tags = TagsOfLines(split(Trim(hashtag_section), NewLine))

\* the text after the first occurrence of label
AfterFirst(s, label) ==
    LET hits == {i \in 1..Len(s) : OccursAt(s, label, i)}
        i == CHOOSE h \in hits : \A g \in hits : h <= g
    IN SubSeq(s, i + Len(label), Len(s))

\* C18: the tag-list section is all the cleaned text after the bold label if
\* there is one, else all the text after the plain label if there is one,
\* else the whole cleaned text; the tags are the qualifying lines of it.
C18_SectionIsAllTextAfterLabel ==
    gen_pc = "returned" =>
        LET expected ==
                IF Contains(response_text, BoldLabel)
                THEN AfterFirst(response_text, BoldLabel)
                ELSE IF Contains(response_text, PlainLabel)
                THEN AfterFirst(response_text, PlainLabel)
                ELSE response_text
        IN /\ hashtag_section = expected
           /\ gen_tags = ExtractTags(expected)

----------------------------------------------------------------------------
(* process_markdown_file, src/md_tagger.py:320-378 *)

\* lines 38-88 as one call
RECURSIVE SplitLoop(_, _, _, _)
SplitLoop(cs, cur, ls, budget) ==
    IF ls = <<>> THEN Flush(cs, cur)
    ELSE LET r == LineStep(cs, cur, Head(ls), budget)
         IN SplitLoop(r[1], r[2], Tail(ls), budget)

split_into_chunks(body, budget) ==
    SplitLoop(<<>>, <<>>, split(body, NewLine), budget)

GenOutcomes ==
    {[raised |-> TRUE, tags |-> <<>>]}
        \cup {[raised |-> FALSE, tags |-> t] :
                 t \in {<<>>, <<"ai">>, <<"ML", "AI">>}}

generate_result(o) == IF o.raised THEN <<>> ELSE o.tags

AppendChunkTagsAlways(all, chunk_tags) == Append(all, chunk_tags)

\* lines 353-354: if chunk_tags: all_tags.append(chunk_tags)
AppendChunkTags(all, chunk_tags) ==
    IF chunk_tags # <<>> THEN Append(all, chunk_tags) ELSE all

LoopDoneEarly(no, cs) == no >= Len(cs)

\* line 350: the for loop has gone through every chunk
LoopDone(no, cs) == no > Len(cs)

\* bool(v) of a loaded YAML value
Truthy(v) ==
    CASE v.type = "none" -> FALSE
      [] v.type = "str"  -> v.val # <<"">>
      [] OTHER           -> v.val # <<>>

\* lines 249-258 and 264: the statements of update_frontmatter_with_tags that
\* raise: .get on a str or a list, list(None), .lower() never on a str
ProcUpdateRaises(fm) ==
    IF ~Truthy(fm) THEN FALSE
    ELSE IF fm.type # "dict" THEN TRUE
    ELSE UpdateRaises(fm.val)

\* lines 249-271
ProcUpdated(fm, new_tags) ==
    PyDict(update_frontmatter_with_tags(IF Truthy(fm) THEN fm.val ELSE <<>>,
                                        new_tags))

\* lines 360-365
ProcFinalTags(all) ==
    IF all # <<>> THEN merge_and_deduplicate_tags(all) ELSE <<>>

\* lines 326-346: the file is read and parsed, the body is cut into chunks
ProcRead ==
    /\ proc_pc = "start"
    /\ reads' = reads + 1
    /\ \E r \in ParseResults(disk.text) :
          /\ proc_loaded' = [has_block |-> HasFrontmatterParts(disk.text),
                             ok |-> r.loaded.ok, value |-> r.loaded.value]
          /\ proc_frontmatter' = r.frontmatter
          /\ proc_content' = r.body
          /\ proc_chunks' = split_into_chunks(r.body, proc_chunk_size)
    /\ chunk_no' = 1
    /\ proc_all_tags' = <<>>
    /\ proc_pc' = "loop"
    /\ UNCHANGED <<disk, proc_chunk_size, gen_calls, gen_returns, gen_active, writes, write_outcome, proc_result, aggVars, fmVars, splitVars, parseVars, genVars, dirVars, fixVars, mainVars>>

\* lines 124-126 and 332-335: the file cannot be read, parse gives (None, "")
ProcReadFails ==
    /\ proc_pc = "start"
    /\ reads' = reads + 1
    /\ proc_result' = "False"
    /\ proc_pc' = "done"
    /\ UNCHANGED <<disk, proc_chunk_size, proc_loaded, proc_frontmatter, proc_content, proc_chunks, chunk_no, proc_all_tags, gen_calls, gen_returns, gen_active, writes, write_outcome, aggVars, fmVars, splitVars, parseVars, genVars, dirVars, fixVars, mainVars>>

\* line 352: generate_tags_for_chunk(chunk) is called
ProcInvoke ==
    /\ proc_pc = "loop"
    /\ ~gen_active
    /\ ~LoopDone(chunk_no, proc_chunks)
    /\ gen_calls' = Append(gen_calls, <<chunk_no, proc_chunks[chunk_no]>>)
    /\ gen_active' = TRUE
    /\ UNCHANGED <<disk, proc_chunk_size, proc_loaded, proc_frontmatter, proc_content, proc_chunks, chunk_no, proc_all_tags, gen_returns, reads, writes, write_outcome, proc_result, proc_pc, aggVars, fmVars, splitVars, parseVars, genVars, dirVars, fixVars, mainVars>>

\* lines 352-357: the call returns, with tags or with [] after a failure
ProcGenReturn ==
    /\ proc_pc = "loop"
    /\ gen_active
    /\ \E o \in GenOutcomes :
          /\ gen_returns' = Append(gen_returns, o)
          /\ proc_all_tags' = AppendChunkTags(proc_all_tags, generate_result(o))
    /\ chunk_no' = chunk_no + 1
    /\ gen_active' = FALSE
    /\ UNCHANGED <<disk, proc_chunk_size, proc_loaded, proc_frontmatter, proc_content, proc_chunks, gen_calls, reads, writes, write_outcome, proc_result, proc_pc, aggVars, fmVars, splitVars, parseVars, genVars, dirVars, fixVars, mainVars>>

\* lines 359-378: aggregate, merge into the frontmatter, save, return.  An
\* exception of the merger ends the call with False (lines 376-378);
\* save_markdown_file keeps its own exceptions (lines 317-318), so a refused
\* write still gives True.
ProcFinish ==
    /\ proc_pc = "loop"
    /\ ~gen_active
    /\ LoopDone(chunk_no, proc_chunks)
    /\ IF ProcUpdateRaises(proc_frontmatter)
       THEN /\ proc_result' = "False"
            /\ UNCHANGED <<disk, writes, write_outcome>>
       ELSE /\ proc_result' = "True"
            /\ \/ /\ write_outcome' = "ok"
                  /\ writes' = writes + 1
                  /\ disk' = [written |-> TRUE, text |-> proc_content,
                              frontmatter |-> ProcUpdated(proc_frontmatter,
                                                 ProcFinalTags(proc_all_tags))]
               \/ /\ write_outcome' = "refused"
                  /\ UNCHANGED <<disk, writes>>
    /\ proc_pc' = "done"
    /\ UNCHANGED <<proc_chunk_size, proc_loaded, proc_frontmatter, proc_content, proc_chunks, chunk_no, proc_all_tags, gen_calls, gen_returns, gen_active, reads, aggVars, fmVars, splitVars, parseVars, genVars, dirVars, fixVars, mainVars>>

\* the files: no frontmatter, a blank block, a block with some YAML text
ProcInit ==
    /\ AggStart(<<>>)
    /\ FmStart(<<>>, <<>>)
    /\ SplitStart(<<>>, 0)
    /\ ParseStart(<<>>)
    /\ GenStart(<<>>)
    /\ \E h \in {<<>>, Dashes \o NewLine \o Dashes \o NewLine,
                  Dashes \o NewLine \o <<"a">> \o NewLine \o Dashes \o NewLine},
          ls \in SeqsUpTo({<<"a">>}, MaxProcLines),
          budget \in 1..MaxProcBudget :
          ProcStart(h \o JoinLines(ls), budget)
    /\ DirStart(<<>>)
    /\ FixStart(<<>>, "none")
    /\ MainStart(<<>>)

ProcNext ==
    ProcRead \/ ProcReadFails \/ ProcInvoke \/ ProcGenReturn \/ ProcFinish

ProcSpec == ProcInit /\ [][ProcNext]_vars

\* the returned tag lists that are not empty, in order
RECURSIVE NonEmptyResults(_)
NonEmptyResults(rs) ==
    IF rs = <<>> THEN <<>>
    ELSE (IF generate_result(Head(rs)) # <<>>
          THEN <<generate_result(Head(rs))>> ELSE <<>>)
             \o NonEmptyResults(Tail(rs))

\* the call ended on a file it could read, whose frontmatter the merger
\* accepts, and the write was not refused by the file system
ProcNormalEnd ==
    /\ proc_pc = "done"
    /\ proc_frontmatter # PyNone
    /\ ~ProcUpdateRaises(proc_frontmatter)
    /\ write_outcome # "refused"

\* C12: a chunk whose generator call failed or gave no tags contributes
\* nothing; every chunk is still sent to the generator, the tags of the
\* other chunks are aggregated and merged, the file is written and the call
\* returns True.
C12_FailedChunkSkipped ==
    ProcNormalEnd =>
        /\ Len(gen_calls) = Len(proc_chunks)
        /\ \A k \in 1..Len(gen_calls) : gen_calls[k] = <<k, proc_chunks[k]>>
        /\ proc_all_tags = NonEmptyResults(gen_returns)
        /\ proc_result = "True"
        /\ write_outcome = "ok"
        /\ disk = [written |-> TRUE, text |-> proc_content,
                   frontmatter |-> ProcUpdated(proc_frontmatter,
                       ProcFinalTags(NonEmptyResults(gen_returns)))]

C12_Witness ==
    /\ ProcNormalEnd
    /\ proc_result = "True"
    /\ \E i, j, k \in 1..Len(gen_returns) :
          /\ gen_returns[i].raised
          /\ ~gen_returns[j].raised /\ gen_returns[j].tags = <<>>
          /\ gen_returns[k].tags # <<>>

\* C14: when the text between the delimiters is not a YAML mapping (YAML
\* error, blank block, scalar or list), the file is treated as having no
\* metadata: it is chunked, tagged and written, and the call returns True.
C14_NonMappingFrontmatterTolerated ==
    (/\ proc_pc = "done"
     /\ proc_loaded.has_block
     /\ (~proc_loaded.ok \/ proc_loaded.value.type # "dict")
     /\ write_outcome # "refused") =>
        /\ proc_result = "True"
        /\ write_outcome = "ok"
        /\ disk.written

\* C19: the generator is invoked once per chunk, in chunk order, one call at
\* a time, never again after a failure; the file is read once and written at
\* most once, after the call for the last chunk has returned.
C19_OneCallPerChunkOneWrite ==
    /\ reads <= 1
    /\ writes <= 1
    /\ Len(gen_calls) <= Len(proc_chunks)
    /\ \A k \in 1..Len(gen_calls) : gen_calls[k] = <<k, proc_chunks[k]>>
    /\ Len(gen_calls) - Len(gen_returns) = (IF gen_active THEN 1 ELSE 0)
    /\ (proc_pc = "done" /\ proc_frontmatter # PyNone) =>
          /\ reads = 1
          /\ Len(gen_returns) = Len(proc_chunks)
    /\ writes = 1 =>
          /\ reads = 1
          /\ Len(gen_returns) = Len(proc_chunks)
          /\ ~gen_active

C19_Witness ==
    /\ proc_pc = "done"
    /\ writes = 1
    /\ Len(proc_chunks) >= 2
    /\ gen_returns[1].raised

----------------------------------------------------------------------------
(* find_markdown_files and process_directory, src/md_tagger.py:273-297, 380-422 *)

\* the order of str comparison on these paths
PathRank(path) ==
    CASE path = "a.md"       -> 1
      [] path = "b.markdown" -> 2
      [] path = "c/d.md"     -> 3
      [] path = "e.md"       -> 4

\* sequences over S without repetition
Arrangements(S) ==
    {o \in SeqsUpTo(S, Cardinality(S)) :
        \A i, j \in 1..Len(o) : i # j => o[i] # o[j]}

\* lines 288-289: what the two glob patterns list, in directory order
GlobResults ==
    {md \o mk : md \in Arrangements({"a.md", "c/d.md", "e.md"}),
                mk \in Arrangements({"b.markdown"})}

\* sorted(): insertion of one path into an ascending list
RECURSIVE InsertPath(_, _)
InsertPath(sorted, path) ==
    IF sorted = <<>> THEN <<path>>
    ELSE IF PathRank(path) < PathRank(Head(sorted)) THEN <<path>> \o sorted
    ELSE <<Head(sorted)>> \o InsertPath(Tail(sorted), path)

RECURSIVE SortPaths(_)
SortPaths(paths) ==
    IF paths = <<>> THEN <<>>
    ELSE InsertPath(SortPaths(SubSeq(paths, 1, Len(paths) - 1)), paths[Len(paths)])

find_markdown_files_unsorted(found) == found

\* lines 283-297: the listed paths, sorted
find_markdown_files(found) == SortPaths(found)

\* lines 393-396: the files are found; with none, {} is returned at once
DirFind ==
    /\ dir_pc = "start"
    /\ markdown_files' = find_markdown_files(glob_found)
    /\ file_no' = 1
    /\ dir_pc' = IF find_markdown_files(glob_found) = <<>> THEN "done" ELSE "loop"
    /\ UNCHANGED <<glob_found, dir_calls, results, success_count, reported, aggVars, fmVars, splitVars, parseVars, genVars, procVars, fixVars, mainVars>>

\* lines 403-414: one iteration of the for loop; process_markdown_file
\* returns True or False, or an exception leaves it (caught at 412-414)
DirProcessFile ==
    /\ dir_pc = "loop"
    /\ file_no <= Len(markdown_files)
    /\ \E outcome \in {"True", "False", "raised"} :
          /\ dir_calls' = Append(dir_calls, <<markdown_files[file_no], outcome>>)
          /\ results' = SetItem(results, markdown_files[file_no], outcome = "True")
          /\ success_count' = success_count + (IF outcome = "True" THEN 1 ELSE 0)
    /\ file_no' = file_no + 1
    /\ UNCHANGED <<glob_found, markdown_files, reported, dir_pc, aggVars, fmVars, splitVars, parseVars, genVars, procVars, fixVars, mainVars>>

\* lines 416-422: the summary is printed and results returned
DirReport ==
    /\ dir_pc = "loop"
    /\ file_no > Len(markdown_files)
    /\ reported' = [total |-> Len(markdown_files), success |-> success_count,
                    failure |-> Len(markdown_files) - success_count]
    /\ dir_pc' = "done"
    /\ UNCHANGED <<glob_found, markdown_files, file_no, dir_calls, results, success_count, aggVars, fmVars, splitVars, parseVars, genVars, procVars, fixVars, mainVars>>

DirInit ==
    /\ AggStart(<<>>)
    /\ FmStart(<<>>, <<>>)
    /\ SplitStart(<<>>, 0)
    /\ ParseStart(<<>>)
    /\ GenStart(<<>>)
    /\ ProcStart(<<>>, 0)
    /\ \E found \in GlobResults : Len(found) <= MaxFiles /\ DirStart(found)
    /\ FixStart(<<>>, "none")
    /\ MainStart(<<>>)

DirNext == DirFind \/ DirProcessFile \/ DirReport

DirSpec == DirInit /\ [][DirNext]_vars

\* the paths of a sequence
PathsOf(ps) == {ps[i] : i \in 1..Len(ps)}

\* C13: process_markdown_file is called once for every discovered file, in
\* ascending path order, whatever earlier files returned or raised; results
\* has one boolean entry per discovered file, and the reported success and
\* failure counts add up to the number of discovered files.
C13_EveryFileOnceInSortedOrder ==
    /\ \A i, j \in 1..Len(dir_calls) :
          i < j => PathRank(dir_calls[i][1]) < PathRank(dir_calls[j][1])
    /\ dir_pc = "done" =>
          /\ {dir_calls[i][1] : i \in 1..Len(dir_calls)} = PathsOf(glob_found)
          /\ Len(dir_calls) = Len(glob_found)
          /\ Len(results) = Len(glob_found)
          /\ {results[i][1] : i \in 1..Len(results)} = PathsOf(glob_found)
          /\ \A i \in 1..Len(results) : results[i][2] \in BOOLEAN
          /\ glob_found # <<>> =>
                /\ reported.total = Len(glob_found)
                /\ reported.success + reported.failure = Len(glob_found)
                /\ reported.success =
                      Cardinality({i \in 1..Len(results) : results[i][2]})

C13_Witness ==
    /\ dir_pc = "done"
    /\ glob_found = <<"e.md", "a.md", "b.markdown">>
    /\ dir_calls = <<<<"a.md", "False">>, <<"b.markdown", "raised">>, <<"e.md", "True">>>>
    /\ results = <<<<"a.md", FALSE>>, <<"b.markdown", FALSE>>, <<"e.md", TRUE>>>>
    /\ reported = [total |-> 3, success |-> 1, failure |-> 2]

----------------------------------------------------------------------------
(* MarkdownFixer.fix_markdown and MarkdownProcessor.process_file,
   src/mdfm_ollama.py:111-176, 211-263 *)

\* the three backquotes that open or close a code block, as one element
Fence == <<"fence">>

\* line 144
OkStatus == 200

\* str.endswith(suffix)
endswith(s, suffix) ==
    Len(s) >= Len(suffix) /\ OccursAt(s, suffix, Len(s) - Len(suffix) + 1)

\* the last index of the whitespace run that starts at i
RECURSIVE WhitespaceRunEnd(_, _)
WhitespaceRunEnd(s, i) ==
    IF i < Len(s) /\ s[i + 1] \in PyWhitespace
    THEN WhitespaceRunEnd(s, i + 1) ELSE i

\* line 158: re.sub(r'\n\s*\n\s*\n', '\n\n', s): a line break followed, within
\* one run of whitespace, by two more line breaks, up to the last of them
RECURSIVE CollapseBlankLines(_)
CollapseBlankLines(s) ==
    LET breaks(i) == {k \in i..WhitespaceRunEnd(s, i) : <<s[k]>> = NewLine}
        starts == {i \in 1..Len(s) :
                      <<s[i]>> = NewLine /\ Cardinality(breaks(i)) >= 3}
    IN IF starts = {} THEN s
       ELSE LET i == CHOOSE a \in starts : \A b \in starts : a <= b
                e == CHOOSE k \in breaks(i) : \A g \in breaks(i) : g <= k
            IN SubSeq(s, 1, i - 1) \o NewLine \o NewLine
                   \o CollapseBlankLines(SubSeq(s, e + 1, Len(s)))

\* lines 146-159
CleanFixed(resp) ==
    LET s == RemoveBlocks(Trim(resp), <<"<think>", "</think>">>)
        \* lines 152-155: a fenced answer loses its first and last line
        unfenced ==
            IF startswith(s, Fence) /\ endswith(s, Fence)
            THEN LET ls == split(s, NewLine)
                 IN IF Len(ls) > 2 THEN JoinLines(SubSeq(ls, 2, Len(ls) - 1))
                    ELSE s
            ELSE s
    IN Trim(CollapseBlankLines(unfenced))

ReturnedContentRaw(fixed, original) == fixed

\* line 161: return fixed_content if fixed_content else content
ReturnedContent(fixed, original) == IF fixed # <<>> THEN fixed ELSE original

LlmOutcomes ==
    {[kind |-> k, status |-> 0, response |-> <<>>] :
        k \in {"connection_error", "timeout", "exception"}}
    \cup {[kind |-> "answered", status |-> 500, response |-> <<"a">>]}
    \cup {[kind |-> "answered", status |-> OkStatus, response |-> Concat(ps)] :
             ps \in SeqsUpTo({Fence, NewLine, <<"a">>, <<" ">>, <<"<think>">>,
                              <<"</think>">>}, MaxFixPieces)}

\* lines 127-176: what fix_markdown returns
fix_markdown(original, o) ==
    IF o.kind # "answered" THEN original
    ELSE IF o.status = OkStatus
    THEN ReturnedContent(CleanFixed(o.response), original)
    ELSE original

\* open(path, 'r').read(): universal newlines turn "\r\n" and "\r" into "\n"
RECURSIVE ReadText(_)
ReadText(bytes) ==
    IF bytes = <<>> THEN <<>>
    ELSE IF Head(bytes) = "\r"
    THEN NewLine \o ReadText(IF Len(bytes) > 1 /\ <<bytes[2]>> = NewLine
                             THEN SubSeq(bytes, 3, Len(bytes))
                             ELSE Tail(bytes))
    ELSE <<Head(bytes)>> \o ReadText(Tail(bytes))

\* lines 245-246
TargetOf(out) == IF out = "none" THEN "input" ELSE "output"

\* lines 214-216: the input file is read
FixRead ==
    /\ fix_pc = "start"
    /\ original_content' = ReadText(fix_disk.input)
    /\ fix_pc' = "read"
    /\ UNCHANGED <<fix_disk, output_path, llm, fixed_content, fix_result, aggVars, fmVars, splitVars, parseVars, genVars, procVars, dirVars, mainVars>>

\* lines 214 and 261-263: the input file cannot be opened
FixReadFails ==
    /\ fix_pc = "start"
    /\ fix_result' = "False"
    /\ fix_pc' = "done"
    /\ UNCHANGED <<fix_disk, output_path, original_content, llm, fixed_content, aggVars, fmVars, splitVars, parseVars, genVars, procVars, dirVars, mainVars>>

\* lines 221-242: lint_file (which returns [] on every error) and fix_markdown
FixCall ==
    /\ fix_pc = "read"
    /\ \E o \in LlmOutcomes :
          /\ llm' = o
          /\ fixed_content' = fix_markdown(original_content, o)
    /\ fix_pc' = "fixed"
    /\ UNCHANGED <<fix_disk, output_path, original_content, fix_result, aggVars, fmVars, splitVars, parseVars, genVars, procVars, dirVars, mainVars>>

\* lines 245-259: the result is written to the target and True returned
FixWrite ==
    /\ fix_pc = "fixed"
    /\ fix_disk' = [fix_disk EXCEPT ![TargetOf(output_path)] = fixed_content]
    /\ fix_result' = "True"
    /\ fix_pc' = "done"
    /\ UNCHANGED <<output_path, original_content, llm, fixed_content, aggVars, fmVars, splitVars, parseVars, genVars, procVars, dirVars, mainVars>>

\* lines 249 and 261-263: the target cannot be opened for writing
FixWriteFails ==
    /\ fix_pc = "fixed"
    /\ fix_result' = "False"
    /\ fix_pc' = "done"
    /\ UNCHANGED <<fix_disk, output_path, original_content, llm, fixed_content, aggVars, fmVars, splitVars, parseVars, genVars, procVars, dirVars, mainVars>>

FixInit ==
    /\ AggStart(<<>>)
    /\ FmStart(<<>>, <<>>)
    /\ SplitStart(<<>>, 0)
    /\ ParseStart(<<>>)
    /\ GenStart(<<>>)
    /\ ProcStart(<<>>, 0)
    /\ DirStart(<<>>)
    /\ \E t \in {<<>>, <<"a">>, <<"a", "\r", "\n", "a">>, <<"a", "\n", "\n">>},
          out \in {"none", "other"} :
          FixStart(t, out)
    /\ MainStart(<<>>)

FixNext == FixRead \/ FixReadFails \/ FixCall \/ FixWrite \/ FixWriteFails

FixSpec == FixInit /\ [][FixNext]_vars

\* the request failed, or its answer is empty once cleaned
LlmFailed ==
    \/ llm.kind \in {"connection_error", "timeout", "exception"}
    \/ llm.kind = "answered" /\ llm.status # OkStatus
    \/ llm.kind = "answered" /\ CleanFixed(llm.response) = <<>>

\* C15: after a connection error, a timeout, any other exception, a status
\* other than 200 or an empty cleaned answer, fix_markdown returns its input
\* unchanged, and process_file leaves in the file exactly the content it read.
C15_FailureKeepsContent ==
    LlmFailed =>
        /\ fixed_content = original_content
        /\ (fix_pc = "done" /\ fix_result = "True") =>
              fix_disk[TargetOf(output_path)] = original_content

C15_Witness ==
    /\ fix_pc = "done"
    /\ fix_result = "True"
    /\ llm.kind = "answered" /\ llm.status = OkStatus
    /\ llm.response = <<"<think>", "a", "</think>">>
    /\ output_path = "none"
    /\ fix_disk.input = <<"a", "\n", "a">>

----------------------------------------------------------------------------
(* main of src/markdown_fixer.py:179-269, with read_markdown_file,
   fix_markdown_with_openai and save_fixed_file.  Strings are sequences of
   characters; "bq" stands for the backquote. *)

\* "Error:", the prefix main looks for (lines 206, 221, 234, 255)
ErrorPrefix ==
    <<"E", "r", "r", "o", "r", ":">>

\* line 86: f"Error reading file: {e}"
ReadErrorText(e) ==
    <<"E", "r", "r", "o", "r", " ", "r", "e", "a", "d", "i", "n", "g",
      " ", "f", "i", "l", "e", ":", " ">> \o e

\* line 164: f"Error calling OpenAI API: {e}"
OpenAIErrorText(e) ==
    <<"E", "r", "r", "o", "r", " ", "c", "a", "l", "l", "i", "n", "g",
      " ", "O", "p", "e", "n", "A", "I", " ", "A", "P", "I", ":", " ">> \o e

\* line 177: f"Error saving file: {e}"
SaveErrorText(e) ==
    <<"E", "r", "r", "o", "r", " ", "s", "a", "v", "i", "n", "g", " ",
      "f", "i", "l", "e", ":", " ">> \o e

BackquoteFence == <<"bq", "bq", "bq">>

MarkdownFence ==
    <<"bq", "bq", "bq", "m", "a", "r", "k", "d", "o", "w", "n">>

\* What run_markdownlint returns: the text of line 61 when the tool is not
\* installed, else the filtered output (lines 28-60), here with no finding
\* and with one
LintOutputs ==
    {<<"E", "r", "r", "o", "r", ":", " ", "m", "a", "r", "k", "d", "o",
      "w", "n", "l", "i", "n", "t", "-", "c", "l", "i", "2", " ", "n",
      "o", "t", " ", "f", "o", "u", "n", "d">>,
     <<"S", "u", "m", "m", "a", "r", "y", ":", " ", "0", " ", "e", "r",
      "r", "o", "r", "(", "s", ")">>,
     <<"1", " ", "M", "D", "0", "4", "1", "\n", "S", "u", "m", "m", "a",
      "r", "y", ":", " ", "1", " ", "e", "r", "r", "o", "r", "(", "s",
      ")">>}

\* line 211: nothing to fix
NoLintErrors(out) ==
    LET SummaryZero ==
            <<"S", "u", "m", "m", "a", "r", "y", ":", " ", "0", " ", "e", "r",
              "r", "o", "r", "(", "s", ")">>
        ErrorsWord ==
            <<"e", "r", "r", "o", "r", "(", "s", ")">>
        SummaryWord ==
            <<"S", "u", "m", "m", "a", "r", "y", ":">>
    IN \/ Contains(out, SummaryZero)
       \/ ~Contains(out, ErrorsWord) /\ ~Contains(out, SummaryWord)

\* lines 239-249: the fences are cut off, then strip() and one final line break
TidyFixed(s) ==
    LET s1 == IF startswith(s, MarkdownFence)
              THEN SubSeq(s, Len(MarkdownFence) + 1, Len(s)) ELSE s
        s2 == IF startswith(s1, BackquoteFence)
              THEN SubSeq(s1, Len(BackquoteFence) + 1, Len(s1)) ELSE s1
        s3 == IF endswith(s2, BackquoteFence)
              THEN SubSeq(s2, 1, Len(s2) - Len(BackquoteFence)) ELSE s2
    IN TrimRight(Trim(s3)) \o NewLine

\* lines 203-213: markdownlint is run; main exits when the tool failed or
\* when there is nothing to fix
MainLint ==
    /\ main_pc = "lint"
    /\ \E out \in LintOutputs :
          /\ markdownlint_output' = out
          /\ IF Contains(out, ErrorPrefix)
             THEN exit_status' = "1" /\ main_pc' = "exited"
             ELSE IF NoLintErrors(out)
             THEN exit_status' = "0" /\ main_pc' = "exited"
             ELSE exit_status' = exit_status /\ main_pc' = "read"
    /\ UNCHANGED <<mf_file, mf_markdown_content, mf_fixed_content, mf_failed, mf_written, aggVars, fmVars, splitVars, parseVars, genVars, procVars, dirVars, fixVars>>

\* what follows the read (lines 221-223)
AfterRead(returned) ==
    IF startswith(returned, ErrorPrefix)
    THEN exit_status' = "1" /\ main_pc' = "exited"
    ELSE exit_status' = exit_status /\ main_pc' = "fix"

\* lines 219-223: the file is read
MainRead ==
    /\ main_pc = "read"
    /\ mf_markdown_content' = ReadText(mf_file)
    /\ AfterRead(ReadText(mf_file))
    /\ UNCHANGED <<mf_file, markdownlint_output, mf_fixed_content, mf_failed, mf_written, aggVars, fmVars, splitVars, parseVars, genVars, procVars, dirVars, fixVars>>

\* lines 80-86 and 219-223: open() or read() raises
MainReadFails ==
    /\ main_pc = "read"
    /\ mf_markdown_content' = ReadErrorText(<<"x">>)
    /\ mf_failed' = mf_failed \cup {"read"}
    /\ AfterRead(ReadErrorText(<<"x">>))
    /\ UNCHANGED <<mf_file, markdownlint_output, mf_fixed_content, mf_written, aggVars, fmVars, splitVars, parseVars, genVars, procVars, dirVars, fixVars>>

\* what follows the request (lines 234-249)
AfterFix(returned) ==
    IF startswith(returned, ErrorPrefix)
    THEN /\ mf_fixed_content' = returned
         /\ exit_status' = "1" /\ main_pc' = "exited"
    ELSE /\ mf_fixed_content' = TidyFixed(returned)
         /\ exit_status' = exit_status /\ main_pc' = "save"

\* lines 150-161 and 232-249: the model answers
MainFix ==
    /\ main_pc = "fix"
    /\ \E ps \in SeqsUpTo({MarkdownFence, BackquoteFence, <<"a">>, NewLine,
                          ErrorPrefix}, MaxCompletionPieces) :
          AfterFix(Trim(Concat(ps)))
    /\ UNCHANGED <<mf_file, markdownlint_output, mf_markdown_content, mf_failed, mf_written, aggVars, fmVars, splitVars, parseVars, genVars, procVars, dirVars, fixVars>>

\* lines 163-164 and 232-249: client.chat.completions.create raises
MainFixFails ==
    /\ main_pc = "fix"
    /\ mf_failed' = mf_failed \cup {"openai"}
    /\ AfterFix(OpenAIErrorText(<<"x">>))
    /\ UNCHANGED <<mf_file, markdownlint_output, mf_markdown_content, mf_written, aggVars, fmVars, splitVars, parseVars, genVars, procVars, dirVars, fixVars>>

\* lines 166-175 and 253-269: the file is overwritten, main runs to its end
MainSave ==
    /\ main_pc = "save"
    /\ mf_file' = mf_fixed_content
    /\ mf_written' = Append(mf_written, mf_fixed_content)
    /\ exit_status' = "0"
    /\ main_pc' = "exited"
    /\ UNCHANGED <<markdownlint_output, mf_markdown_content, mf_fixed_content, mf_failed, aggVars, fmVars, splitVars, parseVars, genVars, procVars, dirVars, fixVars>>

\* lines 176-177 and 255-269: open() for writing raises; the text returned
\* does not start with "Error:" either, so main runs to its end
MainSaveFails ==
    /\ main_pc = "save"
    /\ mf_failed' = mf_failed \cup {"save"}
    /\ exit_status' = IF startswith(SaveErrorText(<<"x">>), ErrorPrefix)
                      THEN "1" ELSE "0"
    /\ main_pc' = "exited"
    /\ UNCHANGED <<mf_file, markdownlint_output, mf_markdown_content, mf_fixed_content, mf_written, aggVars, fmVars, splitVars, parseVars, genVars, procVars, dirVars, fixVars>>

MainInit ==
    /\ AggStart(<<>>)
    /\ FmStart(<<>>, <<>>)
    /\ SplitStart(<<>>, 0)
    /\ ParseStart(<<>>)
    /\ GenStart(<<>>)
    /\ ProcStart(<<>>, 0)
    /\ DirStart(<<>>)
    /\ FixStart(<<>>, "none")
    /\ \E t \in {<<>>, <<"a">>, <<"a", "\r", "\n", "a">>, ErrorPrefix \o <<"a">>} :
          MainStart(t)

MainNext ==
    \/ MainLint \/ MainRead \/ MainReadFails \/ MainFix \/ MainFixFails
    \/ MainSave \/ MainSaveFails

MainSpec == MainInit /\ [][MainNext]_vars

\* C20: when the OpenAI request fails or the file cannot be read, main exits
\* with status 1 before save_fixed_file is called: the file is not written.
C20_FailureExitsBeforeSave ==
    (main_pc = "exited" /\ mf_failed \cap {"read", "openai"} # {}) =>
        /\ exit_status = "1"
        /\ mf_written = <<>>

----------------------------------------------------------------------------
(* save_markdown_file within process_markdown_file, src/md_tagger.py:299-318,
   368-378 *)

\* C21: process_markdown_file returns True only when the updated document
\* was written to disk; when save_markdown_file fails to write, the call
\* returns False.
C21_TrueOnlyIfWritten ==
    proc_pc = "done" =>
        /\ proc_result = "True" => (write_outcome = "ok" /\ disk.written)
        /\ write_outcome = "refused" => proc_result = "False"

----------------------------------------------------------------------------
(* update_frontmatter_with_tags on every value of the tags field,
   src/md_tagger.py:249-269 *)

\* C22: the merger never raises, whatever the tags field holds: a missing
\* key and a null value count as the empty sequence, a single string as a
\* one-element sequence, and the merged list is built from that sequence.
C22_EveryTagsValueAccepted ==
    /\ fm_pc # "raised"
    /\ fm_pc = "updated" =>
          \E i \in 1..Len(frontmatter) :
              /\ frontmatter[i][1] = "tags"
              /\ frontmatter[i][2] =
                    PyList(KeepFirstFrom(ExistingSeq(fm_in) \o tags, 1))

====
